---- MODULE Spec2Model ----
(***************************************************************************)
(* Board interaction engine of the tactical board (src/App.tsx and         *)
(* src/components/PlayerNode.tsx): board state (items, drawings), the      *)
(* tool-mode pointer handlers, item drag with the trash hit test, and the  *)
(* snapshot history with undo / redo.                                      *)
(*                                                                         *)
(* React state read by a handler is the value captured by the last render. *)
(* Updates made in discrete events (click, mousedown, mouseup, touchstart, *)
(* touchend, dragend, and the window's resize) are rendered before the     *)
(* next event is dispatched. Updates made in continuous events (mousemove  *)
(* / touchmove: the functional setDrawings of handleStageMouseMove) are    *)
(* rendered either at once or by a later scheduler task, depending on the  *)
(* React root; the handlers' view of `drawings` is therefore kept apart    *)
(* (seenDrawings) and brought up to date by Render. seenSize is the        *)
(* container size the handlers were rendered with.                         *)
(*                                                                         *)
(* Numbers are modelled as exact rationals <<n, d>> (d > 0, lowest terms). *)
(***************************************************************************)
EXTENDS Integers, Sequences, FiniteSets, TLC

\* ------------------------------------------------------------ constants
VIRTUAL_WIDTH == 1050
VIRTUAL_HEIGHT == 680
TRASH_SIZE == 60
TRASH_MARGIN == 20
TRASH_BUFFER == 30
STROKE_WIDTH == 4
MAX_NUMBER == 99

SELECT == "select"
PEN == "pen"
ARROW == "arrow"
ToolModes == {SELECT, PEN, ARROW}

HOME_PLAYER == "home"
AWAY_PLAYER == "away"
BALL == "ball"
ItemTypes == {HOME_PLAYER, AWAY_PLAYER, BALL}

\* ---------------------------------------------------------------- bounds
MaxIds == 2
MaxHistory == 3
MaxFlat == 4
\* the longer strokes of SpecPen, the longer rosters of SpecRoster and the
\* longer log of SpecDrag
MaxPenFlat == 6
MaxRosterIds == 101
MaxLongHistory == 4

\* generateId() values are 1, 2, ...; 0 stands for null
NoId == 0
\* `number` of an item that has none (undefined)
NoNumber == 0
\* stage.getPointerPosition() returning null
NoPointer == << >>

\* ---------------------------------------------------------------- inputs
COLORS == {"#fbbf24", "#ef4444", "#3b82f6", "#ffffff"}
DEFAULT_COLOR == "#fbbf24"
ContainerSizes == {<<1050, 680>>}
\* the container before and after a resize of the window
ResizeSizes == {<<1050, 680>>, <<800, 600>>}
\* container sizes of SpecViewport, with zero, small and large dimensions
ViewportSizes ==
  {<<w, h>> : w \in {0, 105, 800, 1050, 2100}, h \in {0, 68, 600, 680, 1360}}
\* logical points of the round trip, in [0, W] x [0, H]
LogicalPoints ==
  {<<0, 0>>, <<1, 1>>, <<300, 400>>, <<525, 340>>,
   <<VIRTUAL_WIDTH, VIRTUAL_HEIGHT>>}
\* Math.random() jitter of addItem: VIRTUAL_WIDTH / 2 + [-50, 50)
AddPoints == {<<525, 340>>}
\* local (logical) positions a dragged node can be dropped at
DropPoints == {<<300, 400>>, <<1000, 650>>}
\* local positions of which the second is outside the trash zone of a
\* 1050 x 680 container and inside the trash zone of an 800 x 600 container
ResizeDrops == {<<300, 400>>, <<960, 650>>}
\* local positions around the trash zone of a 1050 x 680 container: outside,
\* on the icon, in the buffer only, and just outside and just inside each
\* edge of the inflated zone
TrashPoints ==
  {<<300, 400>>, <<1000, 650>>, <<980, 600>>,
   <<960, 650>>, <<962, 650>>, <<1088, 650>>, <<1089, 650>>,
   <<1000, 582>>, <<1000, 583>>, <<1000, 708>>, <<1000, 709>>}
\* e.target.rotation() of the dragged node: the node's rotation is the
\* item's `rotation` prop, which nothing sets to a value other than 0
Rotations == {0}
\* angles the selection handle can turn the selected item's wrapper by
HandleRotations == {90}
\* screen positions of the pointer
DownPositions == {<<121, 112>>}
MovePositions == {<<121, 112>>, <<406, 397>>}

VARIABLES
  items, drawings, selectedId, toolMode, drawingColor, homeCount, awayCount,
  isTrashActive, history, historyStep, isDrawing, currentLineId,
  containerSize, seenDrawings, seenSize, nextId, dragId, dragPos, lastOp,
  run

vars == <<items, drawings, selectedId, toolMode, drawingColor, homeCount,
          awayCount, isTrashActive, history, historyStep, isDrawing,
          currentLineId, containerSize, seenDrawings, seenSize, nextId,
          dragId, dragPos, lastOp, run>>

\* ------------------------------------------------------------- rationals
RECURSIVE GCD(_, _)
GCD(a, b) == IF b = 0 THEN a ELSE GCD(b, a % b)

Abs(n) == IF n < 0 THEN -n ELSE n

Frac(n, d) ==
  LET s == IF d < 0 THEN -1 ELSE 1
      g == GCD(Abs(n), Abs(d))
  IN  <<(s * n) \div g, (s * d) \div g>>

FInt(n) == <<n, 1>>
FAdd(p, q) == Frac(p[1] * q[2] + q[1] * p[2], p[2] * q[2])
FSub(p, q) == Frac(p[1] * q[2] - q[1] * p[2], p[2] * q[2])
FMul(p, q) == Frac(p[1] * q[1], p[2] * q[2])
FDiv(p, q) == Frac(p[1] * q[2], p[2] * q[1])
FLess(p, q) == p[1] * q[2] < q[1] * p[2]
FMin(p, q) == IF FLess(q, p) THEN q ELSE p
FMax(p, q) == IF FLess(p, q) THEN q ELSE p

\* ------------------------------------------------------ viewport transform
PAD == <<19, 20>>
FALLBACK_SCALE == <<1, 10>>

\* 'cover' instead of 'contain': the larger of the two ratios
scale_cover(size) ==
  FMul(FMax(Frac(size[1], VIRTUAL_WIDTH), Frac(size[2], VIRTUAL_HEIGHT)), PAD)

scale(size) ==
  FMul(FMin(Frac(size[1], VIRTUAL_WIDTH), Frac(size[2], VIRTUAL_HEIGHT)), PAD)

\* the scale without the fallback
safeScale_raw(size) == scale(size)

safeScale(size) ==
  IF scale(size)[1] = 0 THEN FALLBACK_SCALE ELSE scale(size)

boardX(size) ==
  FMax(FInt(0),
       FDiv(FSub(FInt(size[1]), FMul(FInt(VIRTUAL_WIDTH), safeScale(size))),
            FInt(2)))

boardY(size) ==
  FMax(FInt(0),
       FDiv(FSub(FInt(size[2]), FMul(FInt(VIRTUAL_HEIGHT), safeScale(size))),
            FInt(2)))

\* screen-to-logical conversion that forgets the centering offsets
toLogical_noOffset(s, size) ==
  <<FDiv(s[1], safeScale(size)), FDiv(s[2], safeScale(size))>>

\* the conversion of getVirtualPoint: screen point s (rationals) to logical
toLogical(s, size) ==
  <<FDiv(FSub(s[1], boardX(size)), safeScale(size)),
    FDiv(FSub(s[2], boardY(size)), safeScale(size))>>

\* the transform of the Game World Group: logical point p (rationals) to
\* screen
toScreen(p, size) ==
  <<FAdd(boardX(size), FMul(safeScale(size), p[1])),
    FAdd(boardY(size), FMul(safeScale(size), p[2]))>>

\* pointer: a screen position <<x, y>> or NoPointer; result: <<x, y>> of
\* rationals, or NoPointer
getVirtualPoint(pointer, size) ==
  IF pointer = NoPointer THEN NoPointer
  ELSE toLogical(<<FInt(pointer[1]), FInt(pointer[2])>>, size)

\* Konva's getAbsolutePosition() of a node at local position pos inside the
\* group placed at (boardX, boardY) and scaled by safeScale
getAbsolutePosition(pos, size) ==
  toScreen(<<FInt(pos[1]), FInt(pos[2])>>, size)

trashX(size) == size[1] - TRASH_SIZE - TRASH_MARGIN
trashY(size) == size[2] - TRASH_SIZE - TRASH_MARGIN

\* the trash test on the icon's own square, without the buffer around it
InTrash_noBuffer(absPos, size) ==
  /\ FLess(FInt(trashX(size)), absPos[1])
  /\ FLess(absPos[1], FInt(trashX(size) + TRASH_SIZE))
  /\ FLess(FInt(trashY(size)), absPos[2])
  /\ FLess(absPos[2], FInt(trashY(size) + TRASH_SIZE))

InTrash(absPos, size) ==
  /\ FLess(FInt(trashX(size) - TRASH_BUFFER), absPos[1])
  /\ FLess(absPos[1], FInt(trashX(size) + TRASH_SIZE + TRASH_BUFFER))
  /\ FLess(FInt(trashY(size) - TRASH_BUFFER), absPos[2])
  /\ FLess(absPos[2], FInt(trashY(size) + TRASH_SIZE + TRASH_BUFFER))

\* ------------------------------------------------------------- sequences
Ids(seq) == {seq[i].id : i \in 1..Len(seq)}

RemoveId(seq, id) ==
  LET keep(e) == e.id # id IN SelectSeq(seq, keep)

\* ---------------------------------------------------------------- history
Board(its, drs) == [items |-> its, drawings |-> drs]

\* addToHistory that keeps the redo branch (no slice)
addToHistory_noSlice(newItems, newDrawings) ==
  Append(history, Board(newItems, newDrawings))

\* addToHistory whose slice ends one entry early: history.slice(0, historyStep)
addToHistory_shortSlice(newItems, newDrawings) ==
  Append(SubSeq(history, 1, historyStep), Board(newItems, newDrawings))

\* history.slice(0, historyStep + 1) with the new board pushed
addToHistory(newItems, newDrawings) ==
  Append(SubSeq(history, 1, historyStep + 1), Board(newItems, newDrawings))

\* lastOp names the handler that ran last when it was addItem, a drag end,
\* a pointer-down, a pointer-up (committing or idle), an effective undo /
\* redo, clear, reset or the end of a rotation with the selection handle; it
\* is "other" after every other event.
\* run follows the pattern "n commits, then k undos, then k redos" from the
\* initial history (used by SpecLinear only); last is the board of the last
\* commit.
EmptyBoard == Board(<< >>, << >>)
RunStart == [phase |-> "commits", n |-> 0, k |-> 0, last |-> EmptyBoard]
RunOff == [phase |-> "off", n |-> 0, k |-> 0, last |-> EmptyBoard]
CommitOps == {"addItem", "dragEndMove", "pointerUp"}

Init ==
  /\ items = << >>
  /\ drawings = << >>
  /\ selectedId = NoId
  /\ toolMode = SELECT
  /\ drawingColor = DEFAULT_COLOR
  /\ homeCount = 1
  /\ awayCount = 1
  /\ isTrashActive = FALSE
  /\ history = <<EmptyBoard>>
  /\ historyStep = 0
  /\ isDrawing = FALSE
  /\ currentLineId = NoId
  /\ containerSize \in ContainerSizes
  /\ seenDrawings = << >>
  /\ seenSize = containerSize
  /\ nextId = 1
  /\ dragId = NoId
  /\ dragPos = <<0, 0>>
  /\ lastOp = "init"
  /\ run = RunStart

\* ------------------------------------------------------------ operations
\* the counter updater without the wrap at 99
nextCount_noWrap(prev) == prev + 1

\* setHomeCount / setAwayCount updater: prev < 99 ? prev + 1 : 1
nextCount(prev) == IF prev < MAX_NUMBER THEN prev + 1 ELSE 1

\* items.filter(...).map(...): only the moved item is kept
moveItem_only(its, id, pos, rot) ==
  LET isMoved(it) == it.id = id
      kept == SelectSeq(its, isMoved)
  IN  [i \in 1..Len(kept) |->
         [kept[i] EXCEPT !.x = pos[1], !.y = pos[2], !.rotation = rot]]

\* items.map that writes the node's position / rotation to every item
moveItem_all(its, id, pos, rot) ==
  [i \in 1..Len(its) |->
     [its[i] EXCEPT !.x = pos[1], !.y = pos[2], !.rotation = rot]]

\* the item collection with item `id` moved to the node's position / rotation
moveItem(its, id, pos, rot) ==
  [i \in 1..Len(its) |->
     IF its[i].id = id
       THEN [its[i] EXCEPT !.x = pos[1], !.y = pos[2], !.rotation = rot]
       ELSE its[i]]

\* the updater of handleStageMouseMove whose arrow starts at the previous
\* end point instead of the fixed start point
movePoints_drift(layer, point) ==
  IF layer.tool = ARROW
    THEN <<layer.points[Len(layer.points) - 1], layer.points[Len(layer.points)],
           point[1], point[2]>>
    ELSE layer.points \o <<point[1], point[2]>>

\* the updater of handleStageMouseMove that replaces the tail for every tool
movePoints_replaceTail(layer, point) ==
  <<layer.points[1], layer.points[2], point[1], point[2]>>

\* the updater of handleStageMouseMove that looks at the active tool mode
\* instead of the tool stored in the stroke
movePoints_byToolMode(layer, point) ==
  IF toolMode = ARROW
    THEN <<layer.points[1], layer.points[2], point[1], point[2]>>
    ELSE layer.points \o <<point[1], point[2]>>

\* the updater of handleStageMouseMove applied to the current drawings
movePoints(layer, point) ==
  IF layer.tool = ARROW
    THEN <<layer.points[1], layer.points[2], point[1], point[2]>>
    ELSE layer.points \o <<point[1], point[2]>>

\* the updater of handleStageMouseMove with filter in place of map: only the
\* current stroke is kept
moveDrawings_filter(prevDrawings, id, point) ==
  LET isCurrent(layer) == layer.id = id
      kept == SelectSeq(prevDrawings, isCurrent)
  IN  [i \in 1..Len(kept) |->
         [kept[i] EXCEPT !.points = movePoints(kept[i], point)]]

\* the updater of handleStageMouseMove that restyles the stroke with the
\* current drawing colour
moveDrawings_recolor(prevDrawings, id, point) ==
  [i \in 1..Len(prevDrawings) |->
     IF prevDrawings[i].id = id
       THEN [prevDrawings[i] EXCEPT !.points = movePoints(prevDrawings[i], point),
                                    !.color = drawingColor]
       ELSE prevDrawings[i]]

\* the updater of handleStageMouseMove without the test of the stroke id:
\* every stroke is extended
moveDrawings_all(prevDrawings, id, point) ==
  [i \in 1..Len(prevDrawings) |->
     [prevDrawings[i] EXCEPT !.points = movePoints(prevDrawings[i], point)]]

moveDrawings(prevDrawings, id, point) ==
  [i \in 1..Len(prevDrawings) |->
     IF prevDrawings[i].id = id
       THEN [prevDrawings[i] EXCEPT !.points = movePoints(prevDrawings[i], point)]
       ELSE prevDrawings[i]]

\* addItem that leaves the tool mode as it is
AddItem_keepTool(type, p) ==
  /\ nextId <= MaxRosterIds
  /\ historyStep + 2 <= MaxLongHistory
  /\ LET number == IF type = HOME_PLAYER THEN homeCount
                   ELSE IF type = AWAY_PLAYER THEN awayCount
                   ELSE NoNumber
         newItem == [id |-> nextId, type |-> type, x |-> p[1], y |-> p[2],
                     rotation |-> 0, number |-> number]
         newItems == Append(items, newItem)
     IN  /\ items' = newItems
         /\ history' = addToHistory(newItems, seenDrawings)
         /\ historyStep' = Len(history') - 1
  /\ homeCount' = IF type = HOME_PLAYER THEN nextCount(homeCount) ELSE homeCount
  /\ awayCount' = IF type = AWAY_PLAYER THEN nextCount(awayCount) ELSE awayCount
  /\ nextId' = nextId + 1
  /\ lastOp' = "addItem"
  /\ UNCHANGED <<drawings, selectedId, toolMode, drawingColor, isTrashActive,
                 isDrawing, currentLineId, containerSize, seenDrawings, seenSize,
                 dragId, dragPos>>

AddItem(type, p) ==
  /\ nextId <= MaxRosterIds
  /\ historyStep + 2 <= MaxLongHistory
  /\ LET number == IF type = HOME_PLAYER THEN homeCount
                   ELSE IF type = AWAY_PLAYER THEN awayCount
                   ELSE NoNumber
         newItem == [id |-> nextId, type |-> type, x |-> p[1], y |-> p[2],
                     rotation |-> 0, number |-> number]
         newItems == Append(items, newItem)
     IN  /\ items' = newItems
         /\ history' = addToHistory(newItems, seenDrawings)
         /\ historyStep' = Len(history') - 1
  /\ homeCount' = IF type = HOME_PLAYER THEN nextCount(homeCount) ELSE homeCount
  /\ awayCount' = IF type = AWAY_PLAYER THEN nextCount(awayCount) ELSE awayCount
  /\ toolMode' = SELECT
  /\ nextId' = nextId + 1
  /\ lastOp' = "addItem"
  /\ UNCHANGED <<drawings, selectedId, drawingColor, isTrashActive, isDrawing,
                 currentLineId, containerSize, seenDrawings, seenSize, dragId,
                 dragPos>>

\* onSelect without the tool test
SelectItem_anyTool(id) ==
  /\ id \in Ids(items)
  /\ selectedId' = id
  /\ lastOp' = "other"
  /\ UNCHANGED <<items, drawings, toolMode, drawingColor, homeCount, awayCount,
                 isTrashActive, history, historyStep, isDrawing, currentLineId,
                 containerSize, seenDrawings, seenSize, nextId, dragId, dragPos>>

\* onClick / onTap of a PlayerNode
SelectItem(id) ==
  /\ id \in Ids(items)
  /\ selectedId' = IF toolMode = SELECT THEN id ELSE selectedId
  /\ lastOp' = "other"
  /\ UNCHANGED <<items, drawings, toolMode, drawingColor, homeCount, awayCount,
                 isTrashActive, history, historyStep, isDrawing, currentLineId,
                 containerSize, seenDrawings, seenSize, nextId, dragId, dragPos>>

\* onDragStart of a PlayerNode; the node is draggable only in SELECT mode
DragStart(id) ==
  /\ toolMode = SELECT
  /\ dragId = NoId
  /\ \E i \in 1..Len(items) :
       /\ items[i].id = id
       /\ dragPos' = <<items[i].x, items[i].y>>
  /\ dragId' = id
  /\ selectedId' = IF toolMode = SELECT THEN id ELSE selectedId
  /\ lastOp' = "other"
  /\ UNCHANGED <<items, drawings, toolMode, drawingColor, homeCount, awayCount,
                 isTrashActive, history, historyStep, isDrawing, currentLineId,
                 containerSize, seenDrawings, seenSize, nextId>>

DragMove(p) ==
  /\ dragId # NoId
  /\ dragPos' = p
  /\ isTrashActive' = InTrash(getAbsolutePosition(p, seenSize), seenSize)
  /\ lastOp' = "other"
  /\ UNCHANGED <<items, drawings, selectedId, toolMode, drawingColor, homeCount,
                 awayCount, history, historyStep, isDrawing, currentLineId,
                 containerSize, seenDrawings, seenSize, nextId, dragId>>

DragEnd(rot) ==
  /\ dragId # NoId
  /\ IF InTrash(getAbsolutePosition(dragPos, seenSize), seenSize)
       THEN /\ items' = RemoveId(items, dragId)
            /\ selectedId' = IF selectedId = dragId THEN NoId ELSE selectedId
            /\ lastOp' = "dragEndTrash"
            /\ UNCHANGED <<history, historyStep>>
       ELSE /\ historyStep + 2 <= MaxLongHistory
            /\ items' = moveItem(items, dragId, dragPos, rot)
            /\ history' = addToHistory(items', seenDrawings)
            /\ historyStep' = Len(history') - 1
            /\ lastOp' = "dragEndMove"
            /\ UNCHANGED selectedId
  /\ isTrashActive' = FALSE
  /\ dragId' = NoId
  /\ dragPos' = <<0, 0>>
  /\ UNCHANGED <<drawings, toolMode, drawingColor, homeCount, awayCount,
                 isDrawing, currentLineId, containerSize, seenDrawings,
                 seenSize, nextId>>

\* handleStageMouseDown that deselects after the tool check: in Pen and
\* Arrow mode it starts the stroke and leaves the selection alone
PointerDown_deselectLate(isBackground, pointer) ==
  /\ isBackground \/ items # << >>
  /\ selectedId' = IF isBackground /\ toolMode = SELECT
                    THEN NoId ELSE selectedId
  /\ IF toolMode = SELECT
       THEN /\ lastOp' = "pointerDown"
            /\ UNCHANGED <<drawings, seenDrawings, isDrawing, currentLineId,
                           nextId>>
       ELSE /\ isDrawing' = TRUE
            /\ LET pos == getVirtualPoint(pointer, seenSize)
               IN  IF pos = NoPointer
                     THEN /\ lastOp' = "pointerDown"
                          /\ UNCHANGED <<drawings, seenDrawings, currentLineId,
                                         nextId>>
                     ELSE /\ nextId <= MaxRosterIds
                          /\ currentLineId' = nextId
                          /\ drawings' =
                               Append(seenDrawings,
                                      [id |-> nextId, tool |-> toolMode,
                                       points |-> <<pos[1], pos[2]>>,
                                       color |-> drawingColor,
                                       strokeWidth |-> STROKE_WIDTH])
                          /\ seenDrawings' = drawings'
                          /\ nextId' = nextId + 1
                          /\ lastOp' = "pointerDown"
  /\ UNCHANGED <<items, toolMode, drawingColor, homeCount, awayCount,
                 isTrashActive, history, historyStep, containerSize, seenSize,
                 dragId, dragPos>>

\* onMouseDown / onTouchStart of the Stage
PointerDown(isBackground, pointer) ==
  /\ isBackground \/ items # << >>
  /\ selectedId' = IF isBackground THEN NoId ELSE selectedId
  /\ IF toolMode = SELECT
       THEN /\ lastOp' = "pointerDown"
            /\ UNCHANGED <<drawings, seenDrawings, isDrawing, currentLineId,
                           nextId>>
       ELSE /\ isDrawing' = TRUE
            /\ LET pos == getVirtualPoint(pointer, seenSize)
               IN  IF pos = NoPointer
                     THEN /\ lastOp' = "pointerDown"
                          /\ UNCHANGED <<drawings, seenDrawings, currentLineId,
                                         nextId>>
                     ELSE /\ nextId <= MaxRosterIds
                          /\ currentLineId' = nextId
                          /\ drawings' =
                               Append(seenDrawings,
                                      [id |-> nextId, tool |-> toolMode,
                                       points |-> <<pos[1], pos[2]>>,
                                       color |-> drawingColor,
                                       strokeWidth |-> STROKE_WIDTH])
                          /\ seenDrawings' = drawings'
                          /\ nextId' = nextId + 1
                          /\ lastOp' = "pointerDown"
  /\ UNCHANGED <<items, toolMode, drawingColor, homeCount, awayCount,
                 isTrashActive, history, historyStep, containerSize, seenSize,
                 dragId, dragPos>>

\* handleStageMouseMove that extends the stroke in place: the snapshots that
\* hold the same stroke object change with it
PointerMove_inPlace(pointer) ==
  /\ isDrawing
  /\ currentLineId # NoId
  /\ pointer # NoPointer
  /\ drawings' = moveDrawings(drawings, currentLineId,
                              getVirtualPoint(pointer, seenSize))
  /\ \A i \in 1..Len(drawings') : Len(drawings'[i].points) <= MaxPenFlat
  /\ history' =
       [k \in 1..Len(history) |->
          [history[k] EXCEPT !.drawings =
             moveDrawings(@, currentLineId, getVirtualPoint(pointer, seenSize))]]
  /\ lastOp' = "other"
  /\ UNCHANGED <<items, selectedId, toolMode, drawingColor, homeCount, awayCount,
                 isTrashActive, historyStep, isDrawing, currentLineId,
                 containerSize, seenDrawings, seenSize, nextId, dragId, dragPos>>

\* handleStageMouseMove that saves a snapshot on every move
PointerMove_commit(pointer) ==
  /\ isDrawing
  /\ currentLineId # NoId
  /\ pointer # NoPointer
  /\ historyStep + 2 <= MaxLongHistory
  /\ drawings' = moveDrawings(drawings, currentLineId,
                              getVirtualPoint(pointer, seenSize))
  /\ \A i \in 1..Len(drawings') : Len(drawings'[i].points) <= MaxPenFlat
  /\ history' = addToHistory(items, drawings')
  /\ historyStep' = Len(history') - 1
  /\ lastOp' = "other"
  /\ UNCHANGED <<items, selectedId, toolMode, drawingColor, homeCount, awayCount,
                 isTrashActive, isDrawing, currentLineId, containerSize,
                 seenDrawings, seenSize, nextId, dragId, dragPos>>

\* onMouseMove / onTouchMove of the Stage
PointerMove(pointer) ==
  /\ IF ~isDrawing \/ currentLineId = NoId
       THEN /\ lastOp' = "other"
            /\ UNCHANGED drawings
       ELSE LET point == getVirtualPoint(pointer, seenSize)
            IN  IF point = NoPointer
                  THEN /\ lastOp' = "other"
                       /\ UNCHANGED drawings
                  ELSE /\ drawings' = moveDrawings(drawings, currentLineId, point)
                       /\ \A i \in 1..Len(drawings') :
                            Len(drawings'[i].points) <= MaxPenFlat
                       /\ lastOp' = "other"
  /\ UNCHANGED <<items, selectedId, toolMode, drawingColor, homeCount, awayCount,
                 isTrashActive, history, historyStep, isDrawing, currentLineId,
                 containerSize, seenDrawings, seenSize, nextId, dragId, dragPos>>

\* handleStageMouseUp without the test of isDrawing.current
PointerUp_always ==
  /\ historyStep + 2 <= MaxLongHistory
  /\ isDrawing' = FALSE
  /\ currentLineId' = NoId
  /\ history' = addToHistory(items, seenDrawings)
  /\ historyStep' = Len(history') - 1
  /\ lastOp' = "pointerUp"
  /\ UNCHANGED <<items, drawings, selectedId, toolMode, drawingColor, homeCount,
                 awayCount, isTrashActive, containerSize, seenDrawings, seenSize,
                 nextId, dragId, dragPos>>

\* onMouseUp / onTouchEnd of the Stage
PointerUp ==
  /\ IF isDrawing
       THEN /\ historyStep + 2 <= MaxLongHistory
            /\ isDrawing' = FALSE
            /\ currentLineId' = NoId
            /\ history' = addToHistory(items, seenDrawings)
            /\ historyStep' = Len(history') - 1
            /\ lastOp' = "pointerUp"
       ELSE /\ lastOp' = "pointerUpIdle"
            /\ UNCHANGED <<isDrawing, currentLineId, history, historyStep>>
  /\ UNCHANGED <<items, drawings, selectedId, toolMode, drawingColor, homeCount,
                 awayCount, isTrashActive, containerSize, seenDrawings, seenSize,
                 nextId, dragId, dragPos>>

\* handleUndo that installs history[historyStep] instead of history[prevStep]
handleUndo_stale ==
  /\ IF historyStep = 0
       THEN /\ lastOp' = "other"
            /\ UNCHANGED <<items, drawings, seenDrawings, historyStep>>
       ELSE /\ items' = history[historyStep + 1].items
            /\ drawings' = history[historyStep + 1].drawings
            /\ seenDrawings' = drawings'
            /\ historyStep' = historyStep - 1
            /\ lastOp' = "undo"
  /\ UNCHANGED <<selectedId, toolMode, drawingColor, homeCount, awayCount,
                 isTrashActive, history, isDrawing, currentLineId,
                 containerSize, seenSize, nextId, dragId, dragPos>>

\* handleUndo that drops the undone entry from the log
handleUndo_pop ==
  /\ IF historyStep = 0
       THEN /\ lastOp' = "other"
            /\ UNCHANGED <<items, drawings, seenDrawings, history,
                           historyStep>>
       ELSE /\ items' = history[historyStep].items
            /\ drawings' = history[historyStep].drawings
            /\ seenDrawings' = drawings'
            /\ history' = SubSeq(history, 1, historyStep)
            /\ historyStep' = historyStep - 1
            /\ lastOp' = "undo"
  /\ UNCHANGED <<selectedId, toolMode, drawingColor, homeCount, awayCount,
                 isTrashActive, isDrawing, currentLineId, containerSize,
                 seenSize, nextId, dragId, dragPos>>

handleUndo ==
  /\ IF historyStep = 0
       THEN /\ lastOp' = "other"
            /\ UNCHANGED <<items, drawings, seenDrawings, historyStep>>
       ELSE /\ items' = history[historyStep].items
            /\ drawings' = history[historyStep].drawings
            /\ seenDrawings' = drawings'
            /\ historyStep' = historyStep - 1
            /\ lastOp' = "undo"
  /\ UNCHANGED <<selectedId, toolMode, drawingColor, homeCount, awayCount,
                 isTrashActive, history, isDrawing, currentLineId,
                 containerSize, seenSize, nextId, dragId, dragPos>>

\* handleRedo without the guard on the last entry: it steps past the end
\* of the log when there is nothing to redo
handleRedo_unguarded ==
  /\ historyStep' = historyStep + 1
  /\ items' = IF historyStep + 2 <= Len(history)
                THEN history[historyStep + 2].items ELSE items
  /\ drawings' = IF historyStep + 2 <= Len(history)
                   THEN history[historyStep + 2].drawings ELSE drawings
  /\ seenDrawings' = drawings'
  /\ lastOp' = "redo"
  /\ UNCHANGED <<selectedId, toolMode, drawingColor, homeCount, awayCount,
                 isTrashActive, history, isDrawing, currentLineId,
                 containerSize, seenSize, nextId, dragId, dragPos>>

handleRedo ==
  /\ IF historyStep = Len(history) - 1
       THEN /\ lastOp' = "other"
            /\ UNCHANGED <<items, drawings, seenDrawings, historyStep>>
       ELSE /\ items' = history[historyStep + 2].items
            /\ drawings' = history[historyStep + 2].drawings
            /\ seenDrawings' = drawings'
            /\ historyStep' = historyStep + 1
            /\ lastOp' = "redo"
  /\ UNCHANGED <<selectedId, toolMode, drawingColor, homeCount, awayCount,
                 isTrashActive, history, isDrawing, currentLineId,
                 containerSize, seenSize, nextId, dragId, dragPos>>

\* "Clear Drawings" button that saves the cleared board as a new entry
ClearDrawings_commit ==
  /\ historyStep + 2 <= MaxLongHistory
  /\ drawings' = << >>
  /\ seenDrawings' = << >>
  /\ history' = addToHistory(items, << >>)
  /\ historyStep' = Len(history') - 1
  /\ lastOp' = "clearDrawings"
  /\ UNCHANGED <<items, selectedId, toolMode, drawingColor, homeCount, awayCount,
                 isTrashActive, isDrawing, currentLineId, containerSize,
                 seenSize, nextId, dragId, dragPos>>

\* "Clear Drawings" button
ClearDrawings ==
  /\ drawings' = << >>
  /\ seenDrawings' = << >>
  /\ lastOp' = "clearDrawings"
  /\ UNCHANGED <<items, selectedId, toolMode, drawingColor, homeCount, awayCount,
                 isTrashActive, history, historyStep, isDrawing, currentLineId,
                 containerSize, seenSize, nextId, dragId, dragPos>>

\* Reset Board that restarts the jersey counters at 0
ResetBoard_fromZero ==
  /\ items' = << >>
  /\ drawings' = << >>
  /\ seenDrawings' = << >>
  /\ homeCount' = 0
  /\ awayCount' = 0
  /\ lastOp' = "resetBoard"
  /\ UNCHANGED <<selectedId, toolMode, drawingColor, isTrashActive, history,
                 historyStep, isDrawing, currentLineId, containerSize, seenSize,
                 nextId, dragId, dragPos>>

\* "Reset Board" button
ResetBoard ==
  /\ items' = << >>
  /\ drawings' = << >>
  /\ seenDrawings' = << >>
  /\ homeCount' = 1
  /\ awayCount' = 1
  /\ lastOp' = "resetBoard"
  /\ UNCHANGED <<selectedId, toolMode, drawingColor, isTrashActive, history,
                 historyStep, isDrawing, currentLineId, containerSize, seenSize,
                 nextId, dragId, dragPos>>

SetToolMode(mode) ==
  /\ toolMode' = mode
  /\ lastOp' = "other"
  /\ UNCHANGED <<items, drawings, selectedId, drawingColor, homeCount, awayCount,
                 isTrashActive, history, historyStep, isDrawing, currentLineId,
                 containerSize, seenDrawings, seenSize, nextId, dragId, dragPos>>

SetDrawingColor(c) ==
  /\ drawingColor' = c
  /\ lastOp' = "other"
  /\ UNCHANGED <<items, drawings, selectedId, toolMode, homeCount, awayCount,
                 isTrashActive, history, historyStep, isDrawing, currentLineId,
                 containerSize, seenDrawings, seenSize, nextId, dragId, dragPos>>

\* window 'resize' listener whose state update is left to a later render:
\* the handlers keep the scale, offsets and size of the previous render
handleResize_deferred(size) ==
  /\ containerSize' = size
  /\ lastOp' = "other"
  /\ UNCHANGED <<items, drawings, selectedId, toolMode, drawingColor, homeCount,
                 awayCount, isTrashActive, history, historyStep, isDrawing,
                 currentLineId, seenDrawings, seenSize, nextId, dragId, dragPos>>

\* window 'resize' listener. The state update of a 'resize' event is
\* rendered before the listener's task ends, so scale, safeScale, boardX and
\* boardY are recomputed and every handler is re-created with them before
\* the next event is delivered.
handleResize(size) ==
  /\ containerSize' = size
  /\ seenSize' = size
  /\ lastOp' = "other"
  /\ UNCHANGED <<items, drawings, selectedId, toolMode, drawingColor, homeCount,
                 awayCount, isTrashActive, history, historyStep, isDrawing,
                 currentLineId, seenDrawings, nextId, dragId, dragPos>>

\* re-render that brings the handlers' closures up to date with the updates
\* queued by pointer-move
Render ==
  /\ seenDrawings # drawings
  /\ seenDrawings' = drawings
  /\ seenSize' = containerSize
  /\ lastOp' = "other"
  /\ UNCHANGED <<items, drawings, selectedId, toolMode, drawingColor, homeCount,
                 awayCount, isTrashActive, history, historyStep, isDrawing,
                 currentLineId, containerSize, nextId, dragId, dragPos>>

\* End of a rotation made with the selection handle. The Transformer is
\* attached to the wrapper Group named by the selected item's id; it rotates
\* that Konva node by rot and has no onTransformEnd handler, so no App state
\* is written.
TransformEnd(rot) ==
  /\ selectedId \in Ids(items)
  /\ lastOp' = "transformEnd"
  /\ UNCHANGED <<items, drawings, selectedId, toolMode, drawingColor, homeCount,
                 awayCount, isTrashActive, history, historyStep, isDrawing,
                 currentLineId, containerSize, seenDrawings, seenSize, nextId,
                 dragId, dragPos>>

\* A drag is one pointer gesture: between dragstart and dragend Konva delivers
\* only dragmove to the handlers
NoDrag == dragId = NoId

\* The run of commits, undos and redos is followed when tracked
Track ==
  run' =
    IF lastOp' \in CommitOps
      THEN IF run.phase = "commits"
             THEN [phase |-> "commits", n |-> run.n + 1, k |-> 0,
                   last |-> history'[Len(history')]]
             ELSE RunOff
    ELSE IF lastOp' = "undo"
      THEN IF run.phase = "commits" /\ run.n >= 1
             THEN [run EXCEPT !.phase = "undos", !.k = 1]
           ELSE IF run.phase = "undos" /\ run.k < run.n
             THEN [run EXCEPT !.k = run.k + 1]
           ELSE RunOff
    ELSE IF lastOp' = "redo"
      THEN IF run.phase = "undos" /\ run.k = run.n
             THEN [run EXCEPT !.phase = "redos", !.k = 1]
           ELSE IF run.phase = "redos" /\ run.k < run.n
             THEN [run EXCEPT !.k = run.k + 1]
           ELSE RunOff
    ELSE run

Follow(tracked) == IF tracked THEN Track ELSE UNCHANGED run

\* The part of the state space that is explored: at most `ids` generated
\* ids, strokes of at most `flat` coordinates, a log of at most `hist` entries
Within(ids, flat, hist) ==
  /\ nextId' <= ids + 1
  /\ Len(history') <= hist
  /\ \A i \in 1..Len(drawings') : Len(drawings'[i].points) <= flat

\* One event: a handler run on inputs drawn from the given sets (item kinds,
\* tool modes, colours, pointer positions, container sizes)
Step(types, modes, colors, downs, moves, sizes, tracked, ids, flat, hist) ==
  \/ \E type \in types, p \in AddPoints :
       NoDrag /\ AddItem(type, p) /\ Within(ids, flat, hist) /\ Follow(tracked)
  \/ \E id \in 1..ids : NoDrag /\ SelectItem(id) /\ Follow(tracked)
  \/ \E id \in 1..ids : DragStart(id) /\ Follow(tracked)
  \/ \E p \in DropPoints : DragMove(p) /\ Follow(tracked)
  \/ \E rot \in Rotations :
       DragEnd(rot) /\ Within(ids, flat, hist) /\ Follow(tracked)
  \/ \E rot \in HandleRotations :
       NoDrag /\ TransformEnd(rot) /\ Follow(tracked)
  \/ \E bg \in BOOLEAN, pointer \in downs :
       /\ NoDrag
       /\ PointerDown(bg, pointer)
       /\ Within(ids, flat, hist)
       /\ Follow(tracked)
  \/ \E pointer \in moves :
       NoDrag /\ PointerMove(pointer) /\ Within(ids, flat, hist) /\ Follow(tracked)
  \/ NoDrag /\ PointerUp /\ Within(ids, flat, hist) /\ Follow(tracked)
  \/ NoDrag /\ handleUndo /\ Follow(tracked)
  \/ NoDrag /\ handleRedo /\ Follow(tracked)
  \/ NoDrag /\ ClearDrawings /\ Follow(tracked)
  \/ NoDrag /\ ResetBoard /\ Follow(tracked)
  \/ \E mode \in modes : NoDrag /\ SetToolMode(mode) /\ Follow(tracked)
  \/ \E c \in colors : NoDrag /\ SetDrawingColor(c) /\ Follow(tracked)
  \/ \E size \in sizes : NoDrag /\ handleResize(size) /\ Follow(tracked)
  \/ Render /\ Follow(tracked)

\* Board and history behaviour: Select and Freehand tools, one drawing
\* colour, home players and the ball
Next ==
  Step({HOME_PLAYER, BALL}, {SELECT, PEN}, {DEFAULT_COLOR},
       DownPositions \cup {NoPointer}, {<<406, 397>>, NoPointer}, ContainerSizes,
       FALSE, MaxIds, MaxFlat, MaxHistory)

Spec == Init /\ [][Next]_vars

\* Tool, colour and selection changes: Select and Arrow tools, two drawing
\* colours, the ball only
NextColor ==
  Step({BALL}, {SELECT, ARROW}, {DEFAULT_COLOR, "#ef4444"}, DownPositions, {<<406, 397>>},
       ContainerSizes, FALSE, MaxIds, MaxFlat, MaxHistory)

SpecColor == Init /\ [][NextColor]_vars

\* Undo / redo sequences: the run of commits, undos and redos is followed
NextLinear ==
  Step({BALL}, {SELECT, PEN}, {DEFAULT_COLOR}, DownPositions, {<<406, 397>>},
       ContainerSizes, TRUE, MaxIds, MaxFlat, MaxHistory)

SpecLinear == Init /\ [][NextLinear]_vars

\* Stroke construction: all three tools, strokes of up to MaxPenFlat
\* coordinates
NextPen ==
  Step({BALL}, ToolModes, {DEFAULT_COLOR}, DownPositions, MovePositions \cup {NoPointer},
       ContainerSizes, FALSE, MaxIds, MaxPenFlat, MaxHistory)

SpecPen == Init /\ [][NextPen]_vars

\* Both teams and the ball
NextTeams ==
  Step(ItemTypes, {SELECT, PEN}, {DEFAULT_COLOR}, DownPositions, {<<406, 397>>},
       ContainerSizes, FALSE, MaxIds, MaxFlat, MaxHistory)

SpecTeams == Init /\ [][NextTeams]_vars

\* Item drags on a board of two items: a log of up to MaxLongHistory entries
NextDrag ==
  Step({HOME_PLAYER}, {SELECT, PEN}, {DEFAULT_COLOR}, DownPositions, {<<406, 397>>},
       ContainerSizes, FALSE, MaxIds, MaxFlat, MaxLongHistory)

SpecDrag == Init /\ [][NextDrag]_vars

\* Stale ids: a second touch presses Undo or Reset Board while an item is
\* being dragged, so the drag ends for an item that is no longer on the board
NextStale ==
  \/ Step({BALL}, {SELECT, PEN}, {DEFAULT_COLOR}, DownPositions, {<<406, 397>>},
          ContainerSizes, FALSE, MaxIds, MaxFlat, MaxHistory)
  \/ ~NoDrag /\ handleUndo /\ Follow(FALSE)
  \/ ~NoDrag /\ ResetBoard /\ Follow(FALSE)

SpecStale == Init /\ [][NextStale]_vars

\* Viewport transform: the container is resized over ViewportSizes and one
\* stroke is started with the transform of the last render
NextViewport ==
  \/ \E size \in ViewportSizes : handleResize(size) /\ Follow(FALSE)
  \/ \E mode \in {SELECT, PEN} : SetToolMode(mode) /\ Follow(FALSE)
  \/ \E pointer \in DownPositions :
       nextId = 1 /\ PointerDown(TRUE, pointer) /\ Follow(FALSE)

SpecViewport == Init /\ [][NextViewport]_vars

\* Jersey numbering: up to MaxRosterIds players added, with trash deletions
\* and undos in between. Each player is added at the start of the log (at
\* once, or after an undo), which keeps the log at two entries, and every
\* drag ends in the trash zone.
NextRoster ==
  \/ \E type \in {HOME_PLAYER, AWAY_PLAYER}, p \in AddPoints :
       NoDrag /\ historyStep = 0 /\ AddItem(type, p) /\ Follow(FALSE)
  \/ \E id \in 1..MaxRosterIds : DragStart(id) /\ Follow(FALSE)
  \/ \E p \in DropPoints : DragMove(p) /\ Follow(FALSE)
  \/ \E rot \in Rotations :
       /\ InTrash(getAbsolutePosition(dragPos, seenSize), seenSize)
       /\ DragEnd(rot)
       /\ Follow(FALSE)
  \/ NoDrag /\ handleUndo /\ Follow(FALSE)

SpecRoster == Init /\ [][NextRoster]_vars

\* Trash zone: up to two balls are added and dragged over TrashPoints
NextTrash ==
  \/ \E p \in AddPoints :
       /\ NoDrag
       /\ AddItem(BALL, p)
       /\ Within(MaxIds, MaxFlat, MaxLongHistory)
       /\ Follow(FALSE)
  \/ \E id \in 1..MaxIds : DragStart(id) /\ Follow(FALSE)
  \/ \E p \in TrashPoints : DragMove(p) /\ Follow(FALSE)
  \/ \E rot \in Rotations :
       DragEnd(rot) /\ Within(MaxIds, MaxFlat, MaxLongHistory) /\ Follow(FALSE)

SpecTrash == Init /\ [][NextTrash]_vars

\* Resize: the window is resized between and during the gestures, one ball
\* is dragged over ResizeDrops and strokes are drawn
NextResize ==
  \/ \E p \in AddPoints :
       /\ NoDrag
       /\ nextId = 1
       /\ AddItem(BALL, p)
       /\ Within(MaxIds, MaxFlat, MaxHistory)
       /\ Follow(FALSE)
  \/ DragStart(1) /\ Follow(FALSE)
  \/ \E p \in ResizeDrops : DragMove(p) /\ Follow(FALSE)
  \/ \E rot \in Rotations :
       DragEnd(rot) /\ Within(MaxIds, MaxFlat, MaxHistory) /\ Follow(FALSE)
  \/ \E mode \in {SELECT, PEN} : NoDrag /\ SetToolMode(mode) /\ Follow(FALSE)
  \/ \E pointer \in DownPositions :
       /\ NoDrag
       /\ PointerDown(TRUE, pointer)
       /\ Within(MaxIds, MaxFlat, MaxHistory)
       /\ Follow(FALSE)
  \/ \E pointer \in {<<406, 397>>} :
       /\ NoDrag
       /\ PointerMove(pointer)
       /\ Within(MaxIds, MaxFlat, MaxHistory)
       /\ Follow(FALSE)
  \/ NoDrag /\ PointerUp /\ Within(MaxIds, MaxFlat, MaxHistory) /\ Follow(FALSE)
  \/ \E size \in ResizeSizes : handleResize(size) /\ Follow(FALSE)
  \/ Render /\ Follow(FALSE)

SpecResize == Init /\ [][NextResize]_vars

\* ------------------------------------------------------------------ claims
InTrashNow == InTrash(getAbsolutePosition(dragPos, seenSize), seenSize)

C2_TrashDeletionCommits ==
  [][((\E rot \in Rotations : DragEnd(rot)) /\ InTrashNow) =>
       /\ Len(history') = historyStep + 2
       /\ historyStep' = historyStep + 1
       /\ history'[historyStep' + 1] = Board(items', seenDrawings')
       /\ dragId \notin Ids(history'[historyStep' + 1].items)]_vars

\* The states of the end-to-end scenario: the empty initial state, the state
\* after addItem(HomePlayer), after the drag to (300, 400), after the undo.
ScenarioDrop == <<300, 400>>
IsHomeOneAt(it, pos) ==
  /\ it.type = HOME_PLAYER
  /\ it.number = 1
  /\ it.rotation = 0
  /\ it.x = pos[1]
  /\ it.y = pos[2]

ScenarioStart ==
  /\ items = << >>
  /\ drawings = << >>
  /\ seenDrawings = << >>
  /\ history = <<EmptyBoard>>
  /\ historyStep = 0
  /\ homeCount = 1

ScenarioAdded ==
  /\ Len(items) = 1
  /\ \E p \in AddPoints : IsHomeOneAt(items[1], p)
  /\ drawings = << >>
  /\ seenDrawings = << >>
  /\ history = <<EmptyBoard, Board(items, << >>)>>
  /\ historyStep = 1

ScenarioLog ==
  /\ Len(history) = 3
  /\ history[1] = EmptyBoard
  /\ Len(history[2].items) = 1
  /\ \E p \in AddPoints : IsHomeOneAt(history[2].items[1], p)
  /\ history[2].drawings = << >>
  /\ Len(history[3].items) = 1
  /\ IsHomeOneAt(history[3].items[1], ScenarioDrop)
  /\ history[3].items[1].id = history[2].items[1].id
  /\ history[3].drawings = << >>

ScenarioDragged ==
  /\ ScenarioLog
  /\ historyStep = 2
  /\ Board(items, drawings) = history[3]
  /\ seenDrawings = << >>

ScenarioUndone ==
  /\ ScenarioLog
  /\ historyStep = 1
  /\ Board(items, drawings) = history[2]
  /\ seenDrawings = << >>

ScenarioDrag ==
  /\ ScenarioAdded
  /\ dragId = items[1].id
  /\ dragPos = ScenarioDrop
  /\ \E rot \in Rotations : DragEnd(rot)

\* C3 (as stated): after addItem(HomePlayer) and one drag to (300, 400) the
\* history has 2 entries and step = 1; undo leaves step = 0 with the item at
\* its pre-drag position; redo leaves step = 1 with the item at (300, 400).
C3_ScenarioAsStated ==
  [][/\ ScenarioDrag =>
          /\ Len(history') = 2
          /\ historyStep' = 1
          /\ IsHomeOneAt(items'[1], ScenarioDrop)
     /\ (ScenarioDragged /\ handleUndo) =>
          /\ historyStep' = 0
          /\ items' = history[2].items
     /\ (ScenarioUndone /\ handleRedo) =>
          /\ historyStep' = 1
          /\ IsHomeOneAt(items'[1], ScenarioDrop)]_vars

\* C3 (amended): from the empty initial state addItem(HomePlayer) gives item
\* number 1, 2 entries and step = 1; one drag of it to (300, 400) gives 3
\* entries and step = 2 with the item at (300, 400); undo leaves step = 1
\* with the item at its pre-drag position; redo leaves step = 2 with the
\* item at (300, 400).
C3_Scenario ==
  [][/\ (ScenarioStart /\ \E p \in AddPoints : AddItem(HOME_PLAYER, p)) =>
          ScenarioAdded'
     /\ ScenarioDrag => ScenarioDragged'
     /\ (ScenarioDragged /\ handleUndo) => ScenarioUndone'
     /\ (ScenarioUndone /\ handleRedo) => ScenarioDragged']_vars

C3_Witness == lastOp = "redo" /\ ScenarioDragged

\* C4: in every reachable state 0 <= step < length(entries), and entries[0]
\* is the empty board.
C4_StepInRangeFirstEmpty ==
  /\ 0 <= historyStep
  /\ historyStep < Len(history)
  /\ history[1] = EmptyBoard

C4_Witness ==
  /\ lastOp = "undo"
  /\ historyStep = 0
  /\ Len(history) = 3
  /\ history[3] # EmptyBoard

\* C5: a commit made when step = s keeps entries[0..s], discards every entry
\* after index s, appends the committed board as entry s+1 and sets
\* step = s+1 = length-1 (so redo has nothing to redo).
C5_CommitTruncatesThenAppends ==
  [][lastOp' \in CommitOps =>
       /\ Len(history') = historyStep + 2
       /\ SubSeq(history', 1, historyStep + 1) =
            SubSeq(history, 1, historyStep + 1)
       /\ history'[historyStep + 2] = Board(items', seenDrawings')
       /\ historyStep' = historyStep + 1
       /\ historyStep' = Len(history') - 1]_vars

\* a second home player committed at step 0: the first one's entry, the
\* redo branch left by an undo, is gone
C5_Witness ==
  /\ lastOp = "addItem"
  /\ homeCount = 3
  /\ Len(history) = 2
  /\ historyStep = 1

\* C6: from the initial history, after N commits with no undo in between, N
\* undos leave step = 0 and the live board empty, and N redos afterwards
\* leave step = N and the live board equal to the board of the last commit.
C6_UndoAllRedoAll ==
  /\ (lastOp = "undo" /\ run.phase = "undos" /\ run.k = run.n) =>
       /\ historyStep = 0
       /\ items = << >>
       /\ drawings = << >>
  /\ (lastOp = "redo" /\ run.phase = "redos" /\ run.k = run.n) =>
       /\ historyStep = run.n
       /\ Board(items, drawings) = run.last

C6_Witness ==
  /\ lastOp = "redo"
  /\ run.phase = "redos"
  /\ run.n = 2
  /\ run.k = 2
  /\ run.last # EmptyBoard

\* C7: undo at step = 0 changes nothing (live board, entries, step), even
\* when the live board differs from entries[0]; at step > 0 it decrements
\* step by exactly 1 and installs entries[new step] as the live board.
C7_Undo ==
  [][handleUndo =>
       /\ history' = history
       /\ IF historyStep = 0
            THEN UNCHANGED <<items, drawings, historyStep>>
            ELSE /\ historyStep' = historyStep - 1
                 /\ items' = history[historyStep' + 1].items
                 /\ drawings' = history[historyStep' + 1].drawings]_vars

C7_Witness ==
  /\ lastOp = "undo"
  /\ historyStep = 1
  /\ Len(history) = 3
  /\ history[2] # history[3]

\* C8: redo at step = length-1 changes nothing (live board, entries, step);
\* otherwise it increments step by exactly 1 and installs entries[new step]
\* as the live board.
C8_Redo ==
  [][handleRedo =>
       /\ history' = history
       /\ IF historyStep = Len(history) - 1
            THEN UNCHANGED <<items, drawings, historyStep>>
            ELSE /\ historyStep' = historyStep + 1
                 /\ items' = history[historyStep' + 1].items
                 /\ drawings' = history[historyStep' + 1].drawings]_vars

C8_Witness ==
  /\ lastOp = "redo"
  /\ historyStep = 1
  /\ Len(history) = 3
  /\ history[1] # history[2]

\* C9: every addItem, every completed item drag (move or trash deletion) and
\* every pointer-up that ends an Active stroke session appends exactly one
\* history entry.
C9_EveryCommitPointAppends ==
  [][(\/ \E type \in ItemTypes, p \in AddPoints : AddItem(type, p)
      \/ \E rot \in Rotations : DragEnd(rot)
      \/ (isDrawing /\ PointerUp)) =>
       /\ Len(history') = historyStep + 2
       /\ historyStep' = historyStep + 1
       /\ SubSeq(history', 1, historyStep + 1) =
            SubSeq(history, 1, historyStep + 1)]_vars

\* C10: pointer-move (during or outside a session), drag-move, setToolMode,
\* setDrawingColor and selection changes leave the history entries and step
\* unchanged.
C10_NoCommitOnTransientEvents ==
  [][(\/ \E pointer \in MovePositions \cup {NoPointer} : PointerMove(pointer)
      \/ \E p \in DropPoints : DragMove(p)
      \/ \E mode \in ToolModes : SetToolMode(mode)
      \/ \E c \in COLORS : SetDrawingColor(c)
      \/ \E id \in 1..MaxIds : SelectItem(id)
      \/ \E id \in 1..MaxIds : DragStart(id)) =>
       UNCHANGED <<history, historyStep>>]_vars

\* a stroke extended by a pointer-move of the running session, with the
\* colour and tool changed and an item selected, over a log of 3 entries
C10_Witness ==
  /\ Len(history) = 3
  /\ isDrawing
  /\ \E i \in 1..Len(drawings) :
       drawings[i].id = currentLineId /\ Len(drawings[i].points) = 4
  /\ drawingColor # DEFAULT_COLOR
  /\ toolMode = ARROW
  /\ selectedId # NoId

\* C11: a pointer-down in Pen or Arrow mode with no pointer position creates
\* no stroke, does not make the session Active and appends no history entry,
\* and the pointer-up that follows it appends no history entry either.
C11_NullPointerDownDropped ==
  [][/\ (toolMode # SELECT /\ \E bg \in BOOLEAN : PointerDown(bg, NoPointer)) =>
          /\ drawings' = drawings
          /\ isDrawing' = isDrawing
          /\ currentLineId' = currentLineId
          /\ UNCHANGED <<history, historyStep>>
     /\ (isDrawing /\ currentLineId = NoId /\ PointerUp) =>
          UNCHANGED <<history, historyStep>>]_vars

\* C12: a pointer-up that ends an Active session makes it Idle, clears the
\* remembered stroke id and appends a history entry equal to the live board
\* at that instant, whether or not the last pointer-moves were rendered.
C12_PointerUpCommitsLiveBoard ==
  [][(isDrawing /\ currentLineId # NoId /\ PointerUp) =>
       /\ isDrawing' = FALSE
       /\ currentLineId' = NoId
       /\ Len(history') = historyStep + 2
       /\ historyStep' = historyStep + 1
       /\ history'[historyStep' + 1] = Board(items', drawings')]_vars

\* the logical point of a screen position, as the flat pair stored in a stroke
FlatPoint(pointer) ==
  <<getVirtualPoint(pointer, seenSize)[1], getVirtualPoint(pointer, seenSize)[2]>>

\* C13: an Arrow stroke is created with the pointer-down point alone; every
\* pointer-move of its session leaves it with exactly 2 points, the first
\* unchanged and the second the point of that move; no step changes the first
\* point of an Arrow stroke, and no Arrow stroke ever has more than 2 points.
C13_ArrowKeepsStartAndLastMove ==
  [][/\ \A pointer \in DownPositions :
          (toolMode = ARROW /\ \E bg \in BOOLEAN : PointerDown(bg, pointer)) =>
             /\ Len(drawings') >= 1
             /\ drawings'[Len(drawings')].id = currentLineId'
             /\ drawings'[Len(drawings')].tool = ARROW
             /\ drawings'[Len(drawings')].points = FlatPoint(pointer)
     /\ \A pointer \in MovePositions, i \in 1..Len(drawings) :
          (/\ isDrawing
           /\ drawings[i].id = currentLineId
           /\ drawings[i].tool = ARROW
           /\ PointerMove(pointer)) =>
             /\ Len(drawings') = Len(drawings)
             /\ drawings'[i].points =
                  SubSeq(drawings[i].points, 1, 2) \o FlatPoint(pointer)
     /\ \A i \in 1..Len(drawings), j \in 1..Len(drawings') :
          (drawings[i].id = drawings'[j].id /\ drawings[i].tool = ARROW) =>
             /\ drawings'[j].tool = ARROW
             /\ Len(drawings'[j].points) \in {2, 4}
             /\ SubSeq(drawings'[j].points, 1, 2) =
                  SubSeq(drawings[i].points, 1, 2)]_vars

\* the arrow of the running session after a move away from its start point,
\* the move not yet rendered
C13_Witness ==
  /\ isDrawing
  /\ drawings # seenDrawings
  /\ \E i \in 1..Len(drawings) :
       /\ drawings[i].id = currentLineId
       /\ drawings[i].tool = ARROW
       /\ drawings[i].points = FlatPoint(<<121, 112>>) \o FlatPoint(<<406, 397>>)

\* C14: every pointer-move with a valid position in the session of a Freehand
\* stroke appends exactly one point at the end of the stroke and leaves its
\* earlier points, and every other stroke, unchanged; the stroke is created
\* with the pointer-down point alone, so k moves give k+1 points in event
\* order.
C14_FreehandAppendsOnePoint ==
  [][/\ \A pointer \in DownPositions :
          (toolMode = PEN /\ \E bg \in BOOLEAN : PointerDown(bg, pointer)) =>
             /\ Len(drawings') >= 1
             /\ drawings'[Len(drawings')].id = currentLineId'
             /\ drawings'[Len(drawings')].tool = PEN
             /\ drawings'[Len(drawings')].points = FlatPoint(pointer)
     /\ \A pointer \in MovePositions, i \in 1..Len(drawings) :
          (/\ isDrawing
           /\ drawings[i].id = currentLineId
           /\ drawings[i].tool = PEN
           /\ PointerMove(pointer)) =>
             /\ Len(drawings') = Len(drawings)
             /\ drawings'[i].points = drawings[i].points \o FlatPoint(pointer)
             /\ \A j \in 1..Len(drawings) :
                  j # i => drawings'[j] = drawings[j]]_vars

\* a freehand stroke of the running session after two moves to different
\* points: down point, first move, second move
C14_Witness ==
  /\ isDrawing
  /\ \E i \in 1..Len(drawings) :
       /\ drawings[i].id = currentLineId
       /\ drawings[i].tool = PEN
       /\ drawings[i].points =
            FlatPoint(<<121, 112>>) \o FlatPoint(<<406, 397>>)
              \o FlatPoint(<<121, 112>>)

\* C15: an added player gets the current value c of its team's counter as
\* jersey number, c is in 1..99, and the counter becomes c + 1, or 1 after
\* 99, while the other team's counter is unchanged; a trash deletion changes
\* neither counter. From the counters' start at 1 the numbers of a team are
\* therefore 1, 2, ..., 99, 1, 2, ...: after n players in all, the two
\* counters have advanced by n in total, modulo 99.
C15_JerseyNumbersCycle ==
  [][/\ \A type \in {HOME_PLAYER, AWAY_PLAYER}, p \in AddPoints :
          AddItem(type, p) =>
            LET c == IF type = HOME_PLAYER THEN homeCount ELSE awayCount
                next == IF type = HOME_PLAYER THEN homeCount' ELSE awayCount'
            IN  /\ c \in 1..MAX_NUMBER
                /\ items'[Len(items')].type = type
                /\ items'[Len(items')].number = c
                /\ next = IF c = MAX_NUMBER THEN 1 ELSE c + 1
                /\ type = HOME_PLAYER => awayCount' = awayCount
                /\ type = AWAY_PLAYER => homeCount' = homeCount
     /\ ((\E rot \in Rotations : DragEnd(rot)) /\ InTrashNow) =>
          UNCHANGED <<homeCount, awayCount>>
     /\ (homeCount' + awayCount' - 2) % MAX_NUMBER = (nextId' - 1) % MAX_NUMBER
    ]_vars

\* the 99th player added is the 99th home player: it has number 99 and the
\* home counter is back at 1
C15_Witness ==
  /\ lastOp = "addItem"
  /\ Len(items) = 1
  /\ items[1].id = 99
  /\ items[1].type = HOME_PLAYER
  /\ items[1].number = MAX_NUMBER
  /\ homeCount = 1
  /\ awayCount = 1

\* C16: a step changes the home counter only if it is addItem(HomePlayer),
\* which sets it to the next value (+1, 1 after 99), or resetBoard, which
\* sets it to 1; the same for the away counter and addItem(AwayPlayer). Trash
\* deletion, clearStrokes, undo, redo, adding a Ball and adding a player of
\* the other team leave a counter unchanged.
C16_CountersChangeOnlyByAddAndReset ==
  [][/\ homeCount' # homeCount =>
          \/ /\ \E p \in AddPoints : AddItem(HOME_PLAYER, p)
             /\ homeCount' = IF homeCount = MAX_NUMBER THEN 1 ELSE homeCount + 1
          \/ ResetBoard /\ homeCount' = 1
     /\ awayCount' # awayCount =>
          \/ /\ \E p \in AddPoints : AddItem(AWAY_PLAYER, p)
             /\ awayCount' = IF awayCount = MAX_NUMBER THEN 1 ELSE awayCount + 1
          \/ ResetBoard /\ awayCount' = 1
     /\ (\/ \E rot \in Rotations : DragEnd(rot)
         \/ ClearDrawings
         \/ handleUndo
         \/ handleRedo
         \/ \E p \in AddPoints : AddItem(BALL, p)) =>
          UNCHANGED <<homeCount, awayCount>>
     /\ (\E p \in AddPoints : AddItem(HOME_PLAYER, p)) =>
          /\ homeCount' = nextCount(homeCount)
          /\ awayCount' = awayCount
     /\ (\E p \in AddPoints : AddItem(AWAY_PLAYER, p)) =>
          /\ awayCount' = nextCount(awayCount)
          /\ homeCount' = homeCount
     /\ ResetBoard => (homeCount' = 1 /\ awayCount' = 1)]_vars

\* a home and an away player were added, both were undone, and the counters
\* keep their advanced values
C16_Witness ==
  /\ lastOp = "undo"
  /\ historyStep = 0
  /\ items = << >>
  /\ homeCount = 2
  /\ awayCount = 2

\* C17: the end of a rotation of the selected item with the selection handle
\* writes the rotation to the item on the board and appends a history entry.
C17_TransformEndCommits ==
  [][\A rot \in HandleRotations :
       TransformEnd(rot) =>
         /\ \E i \in 1..Len(items') :
              items'[i].id = selectedId /\ items'[i].rotation = rot
         /\ Len(history') = historyStep + 2
         /\ historyStep' = historyStep + 1]_vars

\* C18: a drag end inside the inflated trash zone removes the dragged item
\* and nothing else from the item collection and clears the selection if the
\* item was selected; a drag end outside it keeps the collection, with the
\* dragged item at the drop position and rotation and with its id, kind and
\* number unchanged; all other items and all strokes are unchanged.
C18_DragEndRemovesOrMoves ==
  [][\A rot \in Rotations :
       DragEnd(rot) =>
         /\ drawings' = drawings
         /\ IF InTrashNow
              THEN /\ dragId \notin Ids(items')
                   /\ Len(items') = Len(items) - 1
                   /\ \A i \in 1..Len(items) :
                        items[i].id # dragId =>
                          \E j \in 1..Len(items') : items'[j] = items[i]
                   /\ selectedId = dragId => selectedId' = NoId
              ELSE /\ Len(items') = Len(items)
                   /\ \A i \in 1..Len(items) :
                        IF items[i].id = dragId
                          THEN /\ items'[i].x = dragPos[1]
                               /\ items'[i].y = dragPos[2]
                               /\ items'[i].rotation = rot
                               /\ items'[i].id = items[i].id
                               /\ items'[i].type = items[i].type
                               /\ items'[i].number = items[i].number
                          ELSE items'[i] = items[i]]_vars

\* the second of two items dropped at (300, 400), the first still where it
\* was added
C18_Witness ==
  /\ lastOp = "dragEndMove"
  /\ Len(items) = 2
  /\ <<items[2].x, items[2].y>> = ScenarioDrop
  /\ <<items[1].x, items[1].y>> \in AddPoints

\* C19: a pointer-down in Select mode starts no session and creates no
\* stroke; a pointer-up while no session is Active appends no history entry
\* and changes no state.
C19_SelectModeNeverDraws ==
  [][/\ (toolMode = SELECT /\ \E bg \in BOOLEAN, pointer \in DownPositions \cup {NoPointer} :
                                PointerDown(bg, pointer)) =>
          UNCHANGED <<isDrawing, currentLineId, drawings, seenDrawings, items,
                      history, historyStep>>
     /\ (~isDrawing /\ PointerUp) =>
          UNCHANGED <<items, drawings, selectedId, toolMode, drawingColor,
                      homeCount, awayCount, isTrashActive, history, historyStep,
                      isDrawing, currentLineId, containerSize, seenDrawings,
                      seenSize, nextId, dragId, dragPos>>]_vars

\* an idle pointer-up in Select mode on a board with an item and a stroke
C19_Witness ==
  /\ lastOp = "pointerUpIdle"
  /\ toolMode = SELECT
  /\ ~isDrawing
  /\ items # << >>
  /\ drawings # << >>
  /\ Len(history) = 3

C21_SelectionAndDragOnlyInSelectMode ==
  [][/\ dragId' # NoId => toolMode' = SELECT
     /\ \A id \in 1..MaxIds :
          /\ DragStart(id) => (toolMode = SELECT /\ selectedId' = id)
          /\ SelectItem(id) =>
               selectedId' = IF toolMode = SELECT THEN id ELSE selectedId]_vars

\* the second of two items is being dragged and is the selection
C21_Witness ==
  /\ Len(items) = 2
  /\ dragId = items[2].id
  /\ selectedId = items[2].id
  /\ toolMode = SELECT

StrokeIds(drs) == Ids(drs)

\* C22 (as stated): a stroke leaves the stroke collection only through
\* clearStrokes or resetBoard.
C22_StrokeLeavesOnlyByClearOrReset ==
  [][StrokeIds(drawings) \subseteq StrokeIds(drawings')
       \/ ClearDrawings
       \/ ResetBoard]_vars

\* C22 (amended): a stroke leaves the stroke collection only through
\* clearStrokes, resetBoard, or an undo or redo that installs a history entry
\* without it; pointer events, addItem and drag end remove no stroke.
C22_StrokeLeavesOnlyByClearResetUndoRedo ==
  [][StrokeIds(drawings) \subseteq StrokeIds(drawings')
       \/ ClearDrawings
       \/ ResetBoard
       \/ (handleUndo /\ historyStep > 0
             /\ drawings' = history[historyStep].drawings)
       \/ (handleRedo /\ historyStep < Len(history) - 1
             /\ drawings' = history[historyStep + 2].drawings)]_vars

\* a pointer-move extended the second of two strokes and the first is still
\* on the board
C22_Witness ==
  /\ isDrawing
  /\ Len(drawings) = 2
  /\ drawings[2].id = currentLineId
  /\ Len(drawings[2].points) = 4
  /\ drawings # seenDrawings

\* C23 (as stated): an item leaves the item collection only through a drag
\* end inside the trash zone or through resetBoard.
C23_ItemLeavesOnlyByTrashOrReset ==
  [][Ids(items) \subseteq Ids(items')
       \/ ((\E rot \in Rotations : DragEnd(rot)) /\ InTrashNow)
       \/ ResetBoard]_vars

\* C23 (amended): an item leaves the item collection only through a drag end
\* inside the trash zone, resetBoard, or an undo or redo that installs a
\* history entry without it; no other operation removes an item.
C23_ItemLeavesOnlyByTrashResetUndoRedo ==
  [][Ids(items) \subseteq Ids(items')
       \/ ((\E rot \in Rotations : DragEnd(rot)) /\ InTrashNow
             /\ Ids(items') = Ids(items) \ {dragId})
       \/ ResetBoard
       \/ (handleUndo /\ historyStep > 0
             /\ items' = history[historyStep].items)
       \/ (handleRedo /\ historyStep < Len(history) - 1
             /\ items' = history[historyStep + 2].items)]_vars

\* one of two items was moved by a drag end and both are on the board
C23_Witness ==
  /\ lastOp = "dragEndMove"
  /\ Len(items) = 2
  /\ <<items[1].x, items[1].y>> = ScenarioDrop

\* C24: a history entry never changes once it is in the log: a step either
\* leaves the log as it is, or it is a commit made at step s, which keeps
\* entries[0..s] as they were and puts one new entry after them.
C24_EntriesNeverChange ==
  [][\/ history' = history
     \/ /\ Len(history') = historyStep + 2
        /\ \A i \in 1..(historyStep + 1) : history'[i] = history[i]]_vars

\* the stroke of the running session is in a history entry with its down
\* point only, while the live stroke has been extended by a move
C24_Witness ==
  /\ isDrawing
  /\ \E i \in 1..Len(drawings), k \in 1..Len(history) :
       \E j \in 1..Len(history[k].drawings) :
         /\ drawings[i].id = currentLineId
         /\ history[k].drawings[j].id = currentLineId
         /\ Len(history[k].drawings[j].points) = 2
         /\ Len(drawings[i].points) = 4

\* C25: a drag end for an item id that is not in the item collection, and a
\* pointer-move whose remembered stroke id is not in the stroke collection,
\* leave the item collection and the stroke collection unchanged.
C25_UnknownIdIsNoOp ==
  [][/\ \A rot \in Rotations :
          (dragId \notin Ids(items) /\ DragEnd(rot)) =>
             UNCHANGED <<items, drawings>>
     /\ \A pointer \in MovePositions \cup {NoPointer} :
          (/\ isDrawing
           /\ currentLineId \notin Ids(drawings)
           /\ PointerMove(pointer)) =>
             UNCHANGED <<items, drawings>>]_vars

\* a drag ended outside the trash zone for an item that an undo had taken
\* off the board, with another item on the board
C25_Witness ==
  /\ lastOp = "dragEndMove"
  /\ Len(items) = 1
  /\ Len(history[Len(history)].items) = 1
  /\ <<items[1].x, items[1].y>> \in AddPoints
  /\ selectedId \notin Ids(items)
  /\ selectedId # NoId

\* every stroke on the live board, in the handlers' view of it and in the
\* history entries
AllStrokes ==
  {drawings[i] : i \in 1..Len(drawings)}
    \cup {seenDrawings[i] : i \in 1..Len(seenDrawings)}
    \cup UNION {{history[k].drawings[j] : j \in 1..Len(history[k].drawings)} :
                  k \in 1..Len(history)}

\* C26: every stroke on the live board and in every history entry has at
\* least one point; a stroke is created with the tool, the drawing colour and
\* the stroke width 4 of its pointer-down, and no step changes the tool,
\* colour or width of a stroke with the same id.
C26_StrokeStyleFixedAtCreation ==
  [][/\ \A a \in AllStrokes' : Len(a.points) >= 2
     /\ \A a \in AllStrokes, b \in AllStrokes' :
          a.id = b.id =>
            /\ b.tool = a.tool
            /\ b.color = a.color
            /\ b.strokeWidth = a.strokeWidth
     /\ \A b \in AllStrokes' :
          b.id \notin Ids(drawings) \cup {a.id : a \in AllStrokes} =>
            /\ b.tool = toolMode
            /\ b.color = drawingColor
            /\ b.strokeWidth = STROKE_WIDTH]_vars

\* a stroke drawn in the second colour was extended by a move after the
\* drawing colour and the tool had been changed back
C26_Witness ==
  /\ isDrawing
  /\ drawingColor = DEFAULT_COLOR
  /\ toolMode = SELECT
  /\ \E i \in 1..Len(drawings) :
       /\ drawings[i].id = currentLineId
       /\ drawings[i].color = "#ef4444"
       /\ drawings[i].tool = ARROW
       /\ Len(drawings[i].points) = 4

\* C27: resetBoard leaves the item collection and the stroke collection empty
\* and both jersey counters at 1.
C27_ResetBoard ==
  [][ResetBoard =>
       /\ items' = << >>
       /\ drawings' = << >>
       /\ homeCount' = 1
       /\ awayCount' = 1]_vars

\* a reset in the middle of a stroke session, after two commits
C27_Witness ==
  /\ lastOp = "resetBoard"
  /\ isDrawing
  /\ currentLineId # NoId
  /\ Len(history) = 3
  /\ items = << >>
  /\ drawings = << >>
  /\ homeCount = 1

\* the container size of the last render has positive width and height
PositiveArea == seenSize[1] > 0 /\ seenSize[2] > 0

\* W * scale <= containerW and H * scale <= containerH, for the scale the
\* canvas is drawn with
CanvasFits ==
  /\ ~FLess(FInt(seenSize[1]), FMul(FInt(VIRTUAL_WIDTH), safeScale(seenSize)))
  /\ ~FLess(FInt(seenSize[2]), FMul(FInt(VIRTUAL_HEIGHT), safeScale(seenSize)))

OffsetsNonNegative ==
  /\ ~FLess(boardX(seenSize), FInt(0))
  /\ ~FLess(boardY(seenSize), FInt(0))

C29_ScalePositive ==
  /\ FLess(FInt(0), safeScale(seenSize))
  /\ (seenSize[1] = 0 \/ seenSize[2] = 0) => safeScale(seenSize) = FALLBACK_SCALE
  /\ \A pointer \in DownPositions :
       /\ getVirtualPoint(pointer, seenSize)[1][2] > 0
       /\ getVirtualPoint(pointer, seenSize)[2][2] > 0
  /\ \A i \in 1..Len(drawings) :
       \A k \in 1..Len(drawings[i].points) : drawings[i].points[k][2] > 0

\* a stroke started in a container of zero width: its point is the pointer
\* position divided by the fallback scale
C29_Witness ==
  /\ seenSize = <<0, 680>>
  /\ Len(drawings) = 1
  /\ drawings[1].points[1] = FInt(1210)

ZoneHit(absPos) ==
  /\ FLess(FInt(containerSize[1] - 110), absPos[1])
  /\ FLess(absPos[1], FInt(containerSize[1] + 10))
  /\ FLess(FInt(containerSize[2] - 110), absPos[2])
  /\ FLess(absPos[2], FInt(containerSize[2] + 10))

\* C31: after every drag-move the armed flag is true exactly when the item's
\* absolute screen position lies strictly inside the inflated zone, and the
\* drag-move changes no item, stroke or history state; a drag end removes the
\* dragged item exactly when the drop position lies in that zone; the armed
\* flag is false after every drag end.
C31_TrashZone ==
  [][/\ (\E p \in TrashPoints : DragMove(p)) =>
          /\ isTrashActive' = ZoneHit(getAbsolutePosition(dragPos', seenSize))
          /\ UNCHANGED <<items, drawings, history, historyStep>>
     /\ (\E rot \in Rotations : DragEnd(rot)) =>
          /\ dragId \in Ids(items)
          /\ (dragId \notin Ids(items')) =
               ZoneHit(getAbsolutePosition(dragPos, seenSize))
          /\ ~ZoneHit(getAbsolutePosition(dragPos, seenSize)) =>
               Len(items') = Len(items)
          /\ ZoneHit(getAbsolutePosition(dragPos, seenSize)) =>
               items' = RemoveId(items, dragId)
          /\ isTrashActive' = FALSE]_vars

\* the second of two items dragged into the buffer around the icon, at
\* absolute position (957.25, 587): the flag is armed and both items are
\* still on the board
C31_Witness ==
  /\ dragId = 2
  /\ dragPos = <<980, 600>>
  /\ isTrashActive
  /\ Len(items) = 2
  /\ getAbsolutePosition(dragPos, seenSize) = <<<<3829, 4>>, <<587, 1>>>>
  /\ ~InTrash_noBuffer(getAbsolutePosition(dragPos, seenSize), seenSize)

\* C32: every pointer event is evaluated with the scale, offsets and
\* container size of the container dimensions at the time of the event, that
\* is of the last resize before it: the first point of a stroke and the point
\* of a pointer-move are the pointer position converted with them, and the
\* trash test of drag-move and drag end is made with them.
C32_EventsUseCurrentSize ==
  [][/\ (\E pointer \in DownPositions :
            PointerDown(TRUE, pointer) /\ toolMode # SELECT) =>
          /\ Len(drawings') = Len(seenDrawings) + 1
          /\ \E pointer \in DownPositions :
               drawings'[Len(drawings')].points =
                 <<getVirtualPoint(pointer, containerSize)[1],
                   getVirtualPoint(pointer, containerSize)[2]>>
     /\ (isDrawing /\ currentLineId # NoId /\ PointerMove(<<406, 397>>)) =>
          drawings' = moveDrawings(drawings, currentLineId,
                                   getVirtualPoint(<<406, 397>>, containerSize))
     /\ (\E p \in ResizeDrops : DragMove(p)) =>
          isTrashActive' =
            InTrash(getAbsolutePosition(dragPos', containerSize), containerSize)
     /\ (dragId \in Ids(items) /\ \E rot \in Rotations : DragEnd(rot)) =>
          (dragId \notin Ids(items')) =
            InTrash(getAbsolutePosition(dragPos, containerSize), containerSize)]_vars

\* the window was resized from 1050 x 680 to 800 x 600 and the item is then
\* dragged to a position that is in the trash zone of the new size only; a
\* stroke drawn before the resize holds a point converted with the old size
C32_Witness ==
  /\ containerSize = <<800, 600>>
  /\ dragId = 1
  /\ dragPos = <<960, 650>>
  /\ isTrashActive
  /\ ~InTrash(getAbsolutePosition(dragPos, <<1050, 680>>), <<1050, 680>>)
  /\ Len(drawings) = 1
  /\ drawings[1].points[1] = getVirtualPoint(<<121, 112>>, <<1050, 680>>)[1]
  /\ drawings[1].points[1] # getVirtualPoint(<<121, 112>>, containerSize)[1]

\* C33: in every reachable state the selection is none or the id of an item
\* that is in the item collection.
C33_SelectionIsLiveItem ==
  selectedId = NoId \/ selectedId \in Ids(items)

\* C34: as long as fewer than 99 items have been added at all (so fewer than
\* 99 players of a team since the last reset), no two players of the same
\* team on the live board have the same jersey number.
C34_LiveNumbersUnique ==
  nextId - 1 < MAX_NUMBER =>
    \A i, j \in 1..Len(items) :
      (/\ i # j
       /\ items[i].type = items[j].type
       /\ items[i].type \in {HOME_PLAYER, AWAY_PLAYER}) =>
        items[i].number # items[j].number

\* C35: a pointer-move changes at most one stroke, the one whose id is the
\* remembered current-stroke id; every other stroke, every item, the
\* selection, the counters and the history are unchanged, also after a
\* second pointer-down during an Active session.
C35_PointerMoveFrame ==
  [][(\E pointer \in MovePositions \cup {NoPointer} : PointerMove(pointer)) =>
       /\ Len(drawings') = Len(drawings)
       /\ \A i \in 1..Len(drawings) :
            /\ drawings'[i].id = drawings[i].id
            /\ drawings[i].id # currentLineId => drawings'[i] = drawings[i]
       /\ Cardinality({i \in 1..Len(drawings) : drawings'[i] # drawings[i]}) <= 1
       /\ UNCHANGED <<items, selectedId, homeCount, awayCount, history,
                      historyStep>>]_vars

\* two pointer-downs without a pointer-up in between (nothing was committed)
\* and then a move: the second stroke has got its second point, the first
\* stroke still has one point
C35_Witness ==
  /\ history = <<EmptyBoard>>
  /\ isDrawing
  /\ Len(drawings) = 2
  /\ currentLineId = drawings[2].id
  /\ Len(drawings[2].points) = 4
  /\ drawings[2].points[3] # drawings[2].points[1]
  /\ Len(drawings[1].points) = 2

\* C36: a stroke keeps the tool that was active at the pointer-down that
\* created it; a pointer-move replaces the tail of an Arrow stroke and appends
\* to a Freehand stroke whatever the tool mode is at the time of the move; a
\* pointer-up during a session makes one commit whatever the tool mode is.
C36_UpdateModeFixedAtPointerDown ==
  [][/\ (\E pointer \in DownPositions :
            PointerDown(TRUE, pointer) /\ toolMode # SELECT) =>
          /\ Len(drawings') = Len(seenDrawings) + 1
          /\ drawings'[Len(drawings')].tool = toolMode
     /\ \A pointer \in MovePositions :
          (isDrawing /\ currentLineId # NoId /\ PointerMove(pointer)) =>
            \A i \in 1..Len(drawings) :
              /\ drawings'[i].tool = drawings[i].tool
              /\ drawings[i].id = currentLineId =>
                   drawings'[i].points =
                     IF drawings[i].tool = ARROW
                       THEN SubSeq(drawings[i].points, 1, 2) \o
                              FlatPoint(pointer)
                       ELSE drawings[i].points \o FlatPoint(pointer)
     /\ (isDrawing /\ PointerUp) =>
          /\ ~isDrawing'
          /\ Len(history') = historyStep + 2
          /\ historyStep' = historyStep + 1]_vars

\* a Freehand session in which the tool was switched to Select before the
\* pointer-up: the stroke got a point appended by each of two moves and the
\* session ended with the one commit after the initial entry
C36_Witness ==
  /\ lastOp = "pointerUp"
  /\ toolMode = SELECT
  /\ items = << >>
  /\ Len(history) = 2
  /\ historyStep = 1
  /\ Len(drawings) = 1
  /\ drawings[1].tool = PEN
  /\ Len(drawings[1].points) = 6

\* C37: undo and redo change only the live board and the step: the history
\* entries, both jersey counters, the tool mode, the drawing color, the
\* selection and the drawing-session state are unchanged by them.
C37_UndoRedoFrame ==
  [][(handleUndo \/ handleRedo) =>
       UNCHANGED <<history, homeCount, awayCount, toolMode, drawingColor,
                   selectedId, isDrawing, currentLineId>>]_vars

\* an undo during a stroke session, with an item selected, that took the
\* only player off the board: the counter, the selection, the session and
\* the two later entries of the log are as before
C37_Witness ==
  /\ lastOp = "undo"
  /\ historyStep = 0
  /\ items = << >>
  /\ Len(history) = 3
  /\ homeCount = 2
  /\ selectedId = 1
  /\ isDrawing
  /\ currentLineId # NoId
  /\ toolMode = PEN

\* C38: Clear Drawings and Reset Board leave the history entries and the
\* step unchanged, and an undo issued right after either of them installs
\* entries[step-1] of that unchanged log and leaves the entries unchanged.
C38_UndoAfterClearOrReset ==
  [][/\ (ClearDrawings \/ ResetBoard) => UNCHANGED <<history, historyStep>>
     /\ (/\ lastOp \in {"clearDrawings", "resetBoard"}
         /\ historyStep > 0
         /\ handleUndo) =>
          /\ Board(items', drawings') = history[historyStep]
          /\ historyStep' = historyStep - 1
          /\ history' = history]_vars

\* an undo after a Reset Board that followed the addition and the move of a
\* home player: the board is the entry before the move, with the player on
\* it, and the counter is the restarted one
C38_Witness ==
  /\ lastOp = "undo"
  /\ homeCount = 1
  /\ Len(history) = 3
  /\ historyStep = 1
  /\ Len(items) = 1
  /\ items[1].type = HOME_PLAYER
  /\ Board(items, drawings) = history[2]
  /\ history[3] # history[2]

\* C39: addItem appends exactly one new item, of the requested kind and with
\* rotation 0, at the end of the item collection, leaves the items that were
\* there and all strokes unchanged, and sets the tool mode to Select.
C39_AddItemAppends ==
  [][\A type \in ItemTypes, p \in AddPoints :
       AddItem(type, p) =>
         /\ Len(items') = Len(items) + 1
         /\ SubSeq(items', 1, Len(items)) = items
         /\ items'[Len(items')].type = type
         /\ items'[Len(items')].rotation = 0
         /\ items'[Len(items')].id \notin Ids(items)
         /\ drawings' = drawings
         /\ toolMode' = SELECT]_vars

\* an item added during a stroke session, which was started in Pen or Arrow
\* mode: the stroke is as it was, the item is the only one, the tool is
\* Select
C39_Witness ==
  /\ lastOp = "addItem"
  /\ isDrawing
  /\ currentLineId = 1
  /\ Len(drawings) = 1
  /\ Len(drawings[1].points) = 4
  /\ Len(items) = 1
  /\ items[1].id = 2
  /\ items[1].rotation = 0
  /\ toolMode = SELECT

====
